---- MODULE Spec2Model ----
(***************************************************************************)
(* Model of streamlit_app.py: the dashboard script that loads the          *)
(* spreadsheet of municipalities (load_data, cached by st.cache_data),     *)
(* lets the user pick one of eight views and builds the matching chart.    *)
(*                                                                         *)
(* One step of the model is one run of the script (Streamlit reruns the    *)
(* whole script on every interaction) or one change of the spreadsheet on  *)
(* disk by its owner.                                                      *)
(*                                                                         *)
(* Strings of the source that hold non-ASCII letters are written here in   *)
(* ASCII ("Municipios" for "Municípios", "0.6-0.7" for "0.6–0.7",          *)
(* ">=0.9" for "≥0.9").  IDH-M values are held in hundredths (0.6 is 60).  *)
(***************************************************************************)
EXTENDS Integers, Sequences, FiniteSets, TLC

VARIABLES
    file,    \* the spreadsheet on disk: [cols, rows]
    cache,   \* st.cache_data's entry for load_data(): <<>> or <<dataset>>
    pc,      \* "start" | "done" (script ran to its end) | "halted" (exception)
    choice,  \* the view identifier of the last run
    err,     \* the exception that halted the last run
    steps,   \* the phases of load_data's body executed by the last run
    calls,   \* the chart builders invoked by the last run, in order
    arg,     \* the dataset as it was when handed to the builder: <<>> or <<d>>
    df,      \* the script's global df at the end of the last run: <<>> or <<d>>
    chart,   \* the data frame the builder handed to plotly: <<>> or <<d>>
    changed  \* history: the spreadsheet changed since the last run

vars == <<file, cache, pc, choice, err, steps, calls, arg, df, chart, changed>>

----------------------------------------------------------------------------
(* Cells.  A spreadsheet cell is a number, a text that parses as a number, *)
(* any other text, or empty (pandas' NaN).                                 *)

Num(n)    == [k |-> "num",    v |-> n]
NumStr(n) == [k |-> "numstr", v |-> n]
Str(n)    == [k |-> "str",    v |-> n]
NaN       == [k |-> "nan",    v |-> 0]
Label(i)  == [k |-> "label",  v |-> i]

isna(cell) == cell.k = "nan"

IsNumber(cell) == cell.k = "num"

\* variant: a coercion that leaves unparseable text in place
to_numeric_keeps_text(cell) ==
    IF cell.k = "numstr" THEN Num(cell.v) ELSE cell

\* pd.to_numeric(..., errors="coerce") on one value
to_numeric(cell) ==
    CASE cell.k = "num"    -> cell
      [] cell.k = "numstr" -> Num(cell.v)
      [] OTHER             -> NaN

----------------------------------------------------------------------------
(* load_data                                                               *)

colunas_esperadas ==
    << "Municipio", "cod_IBGE", "IDH-M_2010", "Populacao_2010",
       "Densidade_2010", "Populacao_2022", "Densidade_2022",
       "PIBcapita_2019", "PIBcapita_2021", "Crescimento_populacional_abs",
       "Crescimento_populacional_pct", "Crescimento_PIBcapita_abs",
       "Crescimento_PIBcapita_pct" >>

Expected == {colunas_esperadas[i] : i \in DOMAIN colunas_esperadas}

\* the columns load_data passes through pd.to_numeric
CoercedCols ==
    { "Populacao_2010", "Densidade_2010", "IDH-M_2010", "Populacao_2022",
      "Densidade_2022", "PIBcapita_2019", "PIBcapita_2021",
      "Crescimento_populacional_abs", "Crescimento_populacional_pct",
      "Crescimento_PIBcapita_abs", "Crescimento_PIBcapita_pct" }

\* the subset of df.dropna
EssentialCols == {"Municipio", "Populacao_2022"}

NoErr == [kind |-> "none", faltando |-> <<>>]

\* pd.read_excel: the table with pandas' RangeIndex 0..n-1 as row labels
read_excel(f) ==
    [cols |-> f.cols,
     rows |-> [i \in DOMAIN f.rows |-> [idx |-> i - 1, c |-> f.rows[i]]]]

\* variant: a validation that stops at the first absent column
faltando_first_only(d) ==
    LET all == SelectSeq(colunas_esperadas, LAMBDA c : c \notin d.cols)
    IN  IF all = <<>> THEN <<>> ELSE <<all[1]>>

faltando(d) == SelectSeq(colunas_esperadas, LAMBDA c : c \notin d.cols)

coerce(d) ==
    [d EXCEPT !.rows =
        [i \in DOMAIN @ |->
            [@[i] EXCEPT !.c =
                [col \in DOMAIN @ |->
                    IF col \in CoercedCols THEN to_numeric(@[col])
                                           ELSE @[col]]]]]

dropna(d, subset) ==
    [d EXCEPT !.rows =
        SelectSeq(@, LAMBDA r : \A col \in subset : ~isna(r.c[col]))]

\* variant: a load_data that drops rows before it coerces
load_data_filter_first(f) ==
    LET d == read_excel(f)
        m == faltando(d)
    IN  IF m # <<>>
        THEN [err   |-> [kind |-> "KeyError", faltando |-> m],
              steps |-> <<"read_excel", "validate">>,
              df    |-> <<>>]
        ELSE [err   |-> NoErr,
              steps |-> <<"read_excel", "validate", "dropna", "to_numeric">>,
              df    |-> <<coerce(dropna(d, EssentialCols))>>]

\* the body of load_data: what it raises or returns, and the phases it ran
load_data(f) ==
    LET d == read_excel(f)
        m == faltando(d)
    IN  IF m # <<>>
        THEN [err   |-> [kind |-> "KeyError", faltando |-> m],
              steps |-> <<"read_excel", "validate">>,
              df    |-> <<>>]
        ELSE [err   |-> NoErr,
              steps |-> <<"read_excel", "validate", "to_numeric", "dropna">>,
              df    |-> <<dropna(coerce(d), EssentialCols)>>]

----------------------------------------------------------------------------
(* pandas operations used by the chart builders                            *)

TopN == 10

Min(a, b) == IF a < b THEN a ELSE b

\* r put into the sorted rows acc, behind every row that does not come after
\* it: missing values last, equal values in their present order (stable)
RECURSIVE Insert(_, _, _, _)
Insert(acc, r, col, desc) ==
    IF acc = <<>> THEN <<r>>
    ELSE LET a     == r.c[col]
             b     == acc[Len(acc)].c[col]
             after == \/ isna(a)
                      \/ /\ ~isna(b)
                         /\ IF desc THEN b.v >= a.v ELSE b.v <= a.v
         IN  IF after
             THEN Append(acc, r)
             ELSE Append(Insert(SubSeq(acc, 1, Len(acc) - 1), r, col, desc),
                         acc[Len(acc)])

RECURSIVE SortFrom(_, _, _, _, _)
SortFrom(rows, k, acc, col, desc) ==
    IF k > Len(rows) THEN acc
    ELSE SortFrom(rows, k + 1, Insert(acc, rows[k], col, desc), col, desc)

Sorted(rows, col, desc) == SortFrom(rows, 1, <<>>, col, desc)

\* variant: the first n rows as they stand, unranked
nlargest_head(d, n, col) ==
    [d EXCEPT !.rows = SubSeq(@, 1, Min(n, Len(@)))]

\* DataFrame.nlargest(n, col): the first n rows in descending order of col
nlargest(d, n, col) ==
    [d EXCEPT !.rows = SubSeq(Sorted(@, col, TRUE), 1, Min(n, Len(@)))]

\* DataFrame.sort_values(col): ascending, missing values last
sort_values(d, col) ==
    [d EXCEPT !.rows = Sorted(@, col, FALSE)]

bins == <<0, 60, 70, 80, 90, 100>>

labels == <<"<0.6", "0.6-0.7", "0.7-0.8", "0.8-0.9", ">=0.9">>

\* numpy's searchsorted(bins, x, side="left"): how many edges are below x
searchsorted_left(x) == Cardinality({i \in DOMAIN bins : bins[i] < x})

\* variant: pd.cut without include_lowest
cut_no_lowest(cell) ==
    IF isna(cell) THEN NaN
    ELSE LET ids == searchsorted_left(cell.v)
         IN  IF ids = 0 \/ ids = Len(bins) THEN NaN ELSE Label(ids)

\* pd.cut(x, bins, labels, include_lowest=True) on one value; right=True is
\* the default, so a bin holds its upper edge and not its lower one
cut(cell) ==
    IF isna(cell) THEN NaN
    ELSE LET found == searchsorted_left(cell.v)
             ids   == IF cell.v = bins[1] THEN 1 ELSE found
         IN  IF ids = 0 \/ ids = Len(bins) THEN NaN ELSE Label(ids)

\* df[col] = values: the column is added, or replaced when present
assign(d, col, values) ==
    [cols |-> d.cols \cup {col},
     rows |-> [i \in DOMAIN d.rows |->
                 [d.rows[i] EXCEPT !.c =
                     [x \in d.cols \cup {col} |->
                         IF x = col THEN values[i] ELSE d.rows[i].c[x]]]]]

----------------------------------------------------------------------------
(* Chart builders: each returns the df it leaves behind and the data frame *)
(* it hands to plotly express.  What plotly draws from it (or rejects) is  *)
(* the library's and not modelled.                                         *)

\* variant: a ranking that sorts the df it is handed in place
plot_top10_pop2022_inplace(d) ==
    LET s == sort_values(d, "Populacao_2022")
    IN  [df |-> s, data |-> nlargest(s, TopN, "Populacao_2022")]

plot_top10_pop2022(d) ==
    [df   |-> d,
     data |-> sort_values(nlargest(d, TopN, "Populacao_2022"),
                          "Populacao_2022")]

plot_top10_dens2022(d) ==
    [df   |-> d,
     data |-> sort_values(nlargest(d, TopN, "Densidade_2022"),
                          "Densidade_2022")]

plot_hist_pib2019(d) == [df |-> d, data |-> d]

plot_hist_pib2021(d) == [df |-> d, data |-> d]

plot_scatter_pib21_dens22(d) == [df |-> d, data |-> d]

plot_scatter_crescimentos(d) == [df |-> d, data |-> d]

plot_boxplot_idhm2010(d) == [df |-> d, data |-> d]

plot_treemap_pop2022_faixaidhm(d) ==
    LET b == assign(d, "Faixa_IDH_2010",
                    [i \in DOMAIN d.rows |-> cut(d.rows[i].c["IDH-M_2010"])])
    IN  [df |-> b, data |-> b]

Build(b, d) ==
    CASE b = "plot_top10_pop2022"             -> plot_top10_pop2022(d)
      [] b = "plot_top10_dens2022"            -> plot_top10_dens2022(d)
      [] b = "plot_hist_pib2019"              -> plot_hist_pib2019(d)
      [] b = "plot_hist_pib2021"              -> plot_hist_pib2021(d)
      [] b = "plot_scatter_pib21_dens22"      -> plot_scatter_pib21_dens22(d)
      [] b = "plot_scatter_crescimentos"      -> plot_scatter_crescimentos(d)
      [] b = "plot_boxplot_idhm2010"          -> plot_boxplot_idhm2010(d)
      [] b = "plot_treemap_pop2022_faixaidhm" -> plot_treemap_pop2022_faixaidhm(d)

----------------------------------------------------------------------------
(* The sidebar's options and the if/elif chain that renders the choice     *)

vis_options ==
    << "1) Top 10 Municipios por Populacao (2022)",
       "2) Top 10 Municipios por Densidade (2022)",
       "3) Histograma: PIB per capita 2019",
       "4) Histograma: PIB per capita 2021",
       "5) Scatter: PIB2021 vs Densidade2022 (bolhas por Pop2022)",
       "6) Scatter: Crescimento Pop (%) vs Crescimento PIB (%)",
       "7) Boxplot: IDH-M (2010)",
       "8) Treemap: Populacao 2022 por Faixas de IDH-M 2010" >>

Views == {vis_options[i] : i \in DOMAIN vis_options}

\* variant: a chain with a copied branch and a catch-all else
Dispatch_fallthrough(c) ==
    IF c = "1) Top 10 Municipios por Populacao (2022)"
    THEN <<"plot_top10_pop2022">>
    ELSE IF c = "2) Top 10 Municipios por Densidade (2022)"
    THEN <<"plot_top10_dens2022">>
    ELSE IF c = "3) Histograma: PIB per capita 2019"
    THEN <<"plot_hist_pib2019">>
    ELSE IF c = "4) Histograma: PIB per capita 2021"
    THEN <<"plot_hist_pib2019">>
    ELSE IF c = "5) Scatter: PIB2021 vs Densidade2022 (bolhas por Pop2022)"
    THEN <<"plot_scatter_pib21_dens22">>
    ELSE IF c = "6) Scatter: Crescimento Pop (%) vs Crescimento PIB (%)"
    THEN <<"plot_scatter_crescimentos">>
    ELSE IF c = "7) Boxplot: IDH-M (2010)"
    THEN <<"plot_boxplot_idhm2010">>
    ELSE <<"plot_treemap_pop2022_faixaidhm">>

\* the builders the chain invokes for a choice, in order
Dispatch(c) ==
    IF c = "1) Top 10 Municipios por Populacao (2022)"
    THEN <<"plot_top10_pop2022">>
    ELSE IF c = "2) Top 10 Municipios por Densidade (2022)"
    THEN <<"plot_top10_dens2022">>
    ELSE IF c = "3) Histograma: PIB per capita 2019"
    THEN <<"plot_hist_pib2019">>
    ELSE IF c = "4) Histograma: PIB per capita 2021"
    THEN <<"plot_hist_pib2021">>
    ELSE IF c = "5) Scatter: PIB2021 vs Densidade2022 (bolhas por Pop2022)"
    THEN <<"plot_scatter_pib21_dens22">>
    ELSE IF c = "6) Scatter: Crescimento Pop (%) vs Crescimento PIB (%)"
    THEN <<"plot_scatter_crescimentos">>
    ELSE IF c = "7) Boxplot: IDH-M (2010)"
    THEN <<"plot_boxplot_idhm2010">>
    ELSE IF c = "8) Treemap: Populacao 2022 por Faixas de IDH-M 2010"
    THEN <<"plot_treemap_pop2022_faixaidhm">>
    ELSE <<>>

----------------------------------------------------------------------------
(* st.cache_data around load_data(): the entry is keyed by the function    *)
(* and its (empty) argument list; a call that raises stores nothing; every *)
(* hit returns a fresh copy of the stored value.                           *)

\* variant: a cache that reloads the spreadsheet at every run
cached_load_data_by_file(entry, f) ==
    LET r == load_data(f)
    IN  [err |-> r.err, steps |-> r.steps, df |-> r.df, entry |-> r.df]

cached_load_data(entry, f) ==
    IF entry # <<>>
    THEN [err |-> NoErr, steps |-> <<>>, df |-> entry, entry |-> entry]
    ELSE LET r == load_data(f)
         IN  [err |-> r.err, steps |-> r.steps, df |-> r.df, entry |-> r.df]

----------------------------------------------------------------------------
(* One run of the script with the sidebar on choice c                      *)

Render(c) ==
    LET r == cached_load_data(cache, file)
    IN  /\ choice' = c
        /\ file'   = file
        /\ changed' = FALSE
        /\ cache'  = r.entry
        /\ err'    = r.err
        /\ steps'  = r.steps
        /\ IF r.err # NoErr
           THEN /\ pc'    = "halted"
                /\ calls' = <<>>
                /\ arg'   = <<>>
                /\ df'    = <<>>
                /\ chart' = <<>>
           ELSE LET d  == r.df[1]
                    bs == Dispatch(c)
                IN  /\ pc'    = "done"
                    /\ calls' = bs
                    /\ IF bs = <<>>
                       THEN /\ arg'   = <<>>
                            /\ df'    = <<d>>
                            /\ chart' = <<>>
                       ELSE LET out == Build(bs[1], d)
                            IN  /\ arg'   = <<d>>
                                /\ df'    = <<out.df>>
                                /\ chart' = <<out.data>>

\* the owner of the spreadsheet saves another version of it
FileChange(f) ==
    /\ f # file
    /\ file' = f
    /\ changed' = TRUE
    /\ UNCHANGED <<cache, pc, choice, err, steps, calls, arg, df, chart>>

----------------------------------------------------------------------------
(* Spreadsheets the model is run on                                        *)

MaxRows == 3
MaxFewRows == 1
MaxMissing == 2
MaxTopRows == 11
MaxBinRows == 1
GridMargin == 1

SeqsUpTo(S, n) == UNION {[1..k -> S] : k \in 0..n}

\* a spreadsheet row; the columns not named hold the cell rest
RawRow(mun, pop22, dens22, idh, rest) ==
    [col \in Expected |->
        CASE col = "Municipio"      -> mun
          [] col = "cod_IBGE"       -> Num(42)
          [] col = "Populacao_2022" -> pop22
          [] col = "Densidade_2022" -> dens22
          [] col = "IDH-M_2010"     -> idh
          [] OTHER                  -> rest]

RowKinds ==
    { RawRow(Str(1), Num(5),    Num(3), Num(70), Num(1)),
      RawRow(NaN,    Num(6),    Num(3), Num(70), Num(1)),
      RawRow(Str(2), NaN,       Num(3), Num(70), Num(1)),
      RawRow(Str(3), Str(9),    Num(2), Num(60), Num(1)),
      RawRow(Str(4), NumStr(7), Str(8), Num(80), NumStr(2)),
      RawRow(Str(5), Num(4),    NaN,    NaN,     Str(6)) }

TopRowKinds ==
    { RawRow(Str(1), Num(1), NaN,    Num(70), Num(1)),
      RawRow(Str(1), Num(2), Num(1), Num(70), Num(1)),
      RawRow(Str(1), Num(1), Num(2), Num(70), Num(1)) }

IdhCells ==
    {Num(v) : v \in (0 - GridMargin)..(100 + GridMargin)} \cup {NaN, Str(1)}

BinRowKinds == {RawRow(Str(1), Num(5), Num(3), i, Num(1)) : i \in IdhCells}

\* a spreadsheet with the columns cs and the rows rs cut down to them
Sheet(cs, rs) ==
    [cols |-> cs, rows |-> [i \in DOMAIN rs |-> [col \in cs |-> rs[i][col]]]]

MissingSets == {m \in SUBSET Expected : Cardinality(m) <= MaxMissing}

\* every expected column present
Files == {Sheet(Expected, rs) : rs \in SeqsUpTo(RowKinds, MaxRows)}

\* up to MaxMissing expected columns absent
SchemaFiles ==
    {Sheet(Expected \ m, rs) : m \in MissingSets,
                               rs \in SeqsUpTo(RowKinds, MaxFewRows)}

\* up to MaxTopRows rows, of at most two kinds in one spreadsheet
TopFiles ==
    {Sheet(Expected, rs) :
        rs \in UNION {SeqsUpTo(K, MaxTopRows) :
                        K \in {S \in SUBSET TopRowKinds : Cardinality(S) = 2}}}

BinFiles == {Sheet(Expected, rs) : rs \in SeqsUpTo(BinRowKinds, MaxBinRows)}

Versions ==
    {Sheet(cs, rs) : cs \in {Expected, Expected \ {"Populacao_2022"}},
                     rs \in SeqsUpTo(RowKinds, MaxFewRows)}

\* an identifier the sidebar does not offer
OtherView == "9) Mapa"

----------------------------------------------------------------------------
(* Specifications                                                          *)

InitWith(F) ==
    /\ file \in F
    /\ cache = <<>>
    /\ pc = "start"
    /\ choice = ""
    /\ err = NoErr
    /\ steps = <<>>
    /\ calls = <<>>
    /\ arg = <<>>
    /\ df = <<>>
    /\ chart = <<>>
    /\ changed = FALSE

\* one process, the spreadsheet left alone: the user picks views
Init == InitWith(Files)
Next == \E c \in Views : Render(c)
Spec == Init /\ [][Next]_vars

\* the same, on spreadsheets that lack expected columns
InitSchema == InitWith(SchemaFiles)
NextSchema == \E c \in Views : Render(c)
SpecSchema == InitSchema /\ [][NextSchema]_vars

\* the two rankings, on spreadsheets of more than ten rows
InitTop == InitWith(TopFiles)
NextTop == \E c \in {vis_options[1], vis_options[2]} : Render(c)
SpecTop == InitTop /\ [][NextTop]_vars

\* the treemap, on every IDH-M value of the grid
InitBin == InitWith(BinFiles)
NextBin == Render(vis_options[8])
SpecBin == InitBin /\ [][NextBin]_vars

\* the if/elif chain run on any identifier: the sidebar's selectbox returns
\* members of vis_options only, so OtherView reaches the chain in no run of
\* the script as it stands
InitDispatch == InitWith(Files)
NextDispatch == \E c \in Views \cup {OtherView} : Render(c)
SpecDispatch == InitDispatch /\ [][NextDispatch]_vars

\* one process over time: runs of the script and changes of the spreadsheet
InitCache == InitWith(Versions)
NextCache ==
    \/ \E c \in Views : Render(c)
    \/ \E f \in Versions : FileChange(f)
SpecCache == InitCache /\ [][NextCache]_vars

----------------------------------------------------------------------------
(* Claims                                                                  *)

Range(q) == {q[i] : i \in DOMAIN q}

\* C1: whenever expected columns are absent from the spreadsheet, the run
\* halts with the KeyError of load_data, which lists every one of the 13
\* expected names that is absent (each once), before any coercion or row
\* filtering and without any chart builder being invoked; when none is
\* absent no error is raised.
C1_SchemaValidation ==
    pc # "start" =>
        LET absent == Expected \ file.cols
        IN  /\ Cardinality(Expected) = 13
            /\ absent # {} =>
                  /\ pc = "halted"
                  /\ err.kind = "KeyError"
                  /\ Range(err.faltando) = absent
                  /\ Len(err.faltando) = Cardinality(absent)
                  /\ Range(steps) \cap {"to_numeric", "dropna"} = {}
                  /\ calls = <<>> /\ chart = <<>> /\ cache = <<>>
            /\ absent = {} => pc = "done" /\ err = NoErr

C1_Witness ==
    /\ pc = "halted"
    /\ Cardinality(Expected \ file.cols) = 2
    /\ Len(err.faltando) = 2
    /\ file.rows # <<>>

\* the Dataset load_data returned in this process
Loaded == cache[1]

\* C2 as claimed: every record of the Dataset load_data returns holds a
\* number in every coerced indicator column.
C2_AllIndicatorsNumeric ==
    pc = "done" =>
        \A i \in DOMAIN Loaded.rows : \A col \in CoercedCols :
            IsNumber(Loaded.rows[i].c[col])

\* C2 amended: every record of the Dataset load_data returns has a
\* Municipio that is not missing and a number as Populacao_2022; each other
\* coerced column holds a number or the missing marker (never a text).
C2_EssentialsPresent ==
    pc = "done" =>
        \A i \in DOMAIN Loaded.rows :
            /\ ~isna(Loaded.rows[i].c["Municipio"])
            /\ IsNumber(Loaded.rows[i].c["Populacao_2022"])
            /\ \A col \in CoercedCols :
                  IsNumber(Loaded.rows[i].c[col]) \/ isna(Loaded.rows[i].c[col])

C2_Witness ==
    /\ pc = "done"
    /\ \E i \in DOMAIN Loaded.rows :
          /\ isna(Loaded.rows[i].c["Densidade_2022"])
          /\ file.rows[Loaded.rows[i].idx + 1]["Densidade_2022"].k = "str"

\* C3: load_data raises for no cell value; it returns exactly the records
\* of the spreadsheet whose Municipio is not missing and whose
\* Populacao_2022 is a number or a text that parses as one, in their
\* original order, each once, with every coerced cell turned into its
\* number (a number unchanged, an unparseable text or an empty cell into
\* the missing marker) and every other cell untouched; coercion runs
\* before the row filter.
C3_CoerceThenFilter ==
    pc = "done" =>
        LET raw  == file.rows
            out  == Loaded.rows
            kept == {i \in DOMAIN raw :
                        /\ raw[i]["Municipio"].k # "nan"
                        /\ raw[i]["Populacao_2022"].k \in {"num", "numstr"}}
        IN  /\ err = NoErr
            /\ Loaded.cols = file.cols
            /\ Len(out) = Cardinality(kept)
            /\ \A k \in DOMAIN out : out[k].idx + 1 \in kept
            /\ \A k \in 1..(Len(out) - 1) : out[k].idx < out[k + 1].idx
            /\ \A k \in DOMAIN out : \A col \in file.cols :
                  LET r == raw[out[k].idx + 1][col]
                      o == out[k].c[col]
                  IN  IF col \in CoercedCols
                      THEN /\ r.k = "num" => o = r
                           /\ r.k = "numstr" => o = Num(r.v)
                           /\ r.k \in {"str", "nan"} => o = NaN
                      ELSE o = r
            /\ steps # <<>> =>
                  \E i, j \in DOMAIN steps :
                      i < j /\ steps[i] = "to_numeric" /\ steps[j] = "dropna"

C3_Witness ==
    /\ pc = "done"
    /\ Len(file.rows) = 3
    /\ file.rows[1]["Populacao_2022"].k = "num"
    /\ file.rows[2]["Populacao_2022"].k = "str"
    /\ file.rows[3]["Populacao_2022"].k = "numstr"
    /\ Len(Loaded.rows) = 2
    /\ Loaded.rows[2].idx = 2

\* the ranking column of the builder the last run invoked
RankCol ==
    IF calls = <<"plot_top10_pop2022">> THEN "Populacao_2022"
                                        ELSE "Densidade_2022"

RankingRun ==
    /\ pc = "done"
    /\ calls \in {<<"plot_top10_pop2022">>, <<"plot_top10_dens2022">>}

\* the rows handed to the bar chart are distinct rows of the Dataset
SelectionOfDataset ==
    LET all == arg[1].rows
        sel == chart[1].rows
    IN  /\ Len(sel) = Min(10, Len(all))
        /\ Cardinality({sel[k].idx : k \in DOMAIN sel}) = Len(sel)
        /\ \A k \in DOMAIN sel : \E i \in DOMAIN all : all[i] = sel[k]

Excluded ==
    {i \in DOMAIN arg[1].rows :
        \A k \in DOMAIN chart[1].rows :
            chart[1].rows[k].idx # arg[1].rows[i].idx}

\* a >= b on cells: false when either is missing, as any comparison with NaN
Geq(a, b) == IsNumber(a) /\ IsNumber(b) /\ a.v >= b.v

\* C4 as claimed: both rankings select min(10, |Dataset|) records, every
\* selected value is >= every excluded value, and the selected records are
\* handed to the bar chart in ascending order of the ranking column.
C4_TopTenAsClaimed ==
    RankingRun =>
        LET all == arg[1].rows
            sel == chart[1].rows
        IN  /\ SelectionOfDataset
            /\ \A k \in DOMAIN sel : \A i \in Excluded :
                  Geq(sel[k].c[RankCol], all[i].c[RankCol])
            /\ \A k \in 1..(Len(sel) - 1) :
                  Geq(sel[k + 1].c[RankCol], sel[k].c[RankCol])

\* C4 amended: both rankings select min(10, |Dataset|) distinct records of
\* the Dataset (all of it when it has fewer than 10) and raise nothing.
\* Populacao_2022 is never missing, and there every selected value is >=
\* every excluded one and the records are handed over in ascending order.
\* Densidade_2022 may be missing: the same holds among the records that
\* have a number, a record without one is selected only when no record
\* with a number is excluded, and it is handed over after the numbers.
C4_TopTenMissingLast ==
    RankingRun =>
        LET all == arg[1].rows
            sel == chart[1].rows
        IN  /\ err = NoErr
            /\ SelectionOfDataset
            /\ RankCol = "Populacao_2022" =>
                  \A i \in DOMAIN all : IsNumber(all[i].c[RankCol])
            /\ \A k \in DOMAIN sel : \A i \in Excluded :
                  LET a == sel[k].c[RankCol]
                      b == all[i].c[RankCol]
                  IN  /\ IsNumber(a) /\ IsNumber(b) => a.v >= b.v
                      /\ isna(a) => isna(b)
            /\ \A k \in 1..(Len(sel) - 1) :
                  LET a == sel[k].c[RankCol]
                      b == sel[k + 1].c[RankCol]
                  IN  /\ IsNumber(a) /\ IsNumber(b) => a.v <= b.v
                      /\ isna(a) => isna(b)

C4_Witness ==
    /\ RankingRun
    /\ RankCol = "Densidade_2022"
    /\ Len(arg[1].rows) = 11
    /\ Len(chart[1].rows) = 10
    /\ IsNumber(chart[1].rows[1].c[RankCol])
    /\ isna(chart[1].rows[10].c[RankCol])
    /\ \E i \in Excluded : isna(arg[1].rows[i].c[RankCol])

C4_WitnessPop ==
    /\ RankingRun
    /\ RankCol = "Populacao_2022"
    /\ Len(arg[1].rows) = 11
    /\ chart[1].rows[1].c[RankCol].v < chart[1].rows[10].c[RankCol].v
    /\ \E i \in Excluded : arg[1].rows[i].c[RankCol].v = 1

TreemapRun ==
    pc = "done" /\ calls = <<"plot_treemap_pop2022_faixaidhm">>

\* the text of a Faixa_IDH_2010 cell
LabelOf(cell) == IF cell.k = "label" THEN labels[cell.v] ELSE "unclassified"

\* C5: an IDH-M_2010 equal to an interior bin edge gets the label of the
\* bin that starts there: 0.6 is "0.6-0.7", 0.7 is "0.7-0.8", 0.8 is
\* "0.8-0.9" and 0.9 is ">=0.9".
C5_LowerBoundInclusive ==
    TreemapRun =>
        \A i \in DOMAIN df[1].rows :
            LET x == df[1].rows[i].c["IDH-M_2010"]
                f == LabelOf(df[1].rows[i].c["Faixa_IDH_2010"])
            IN  IsNumber(x) =>
                    /\ x.v = 60 => f = "0.6-0.7"
                    /\ x.v = 70 => f = "0.7-0.8"
                    /\ x.v = 80 => f = "0.8-0.9"
                    /\ x.v = 90 => f = ">=0.9"

\* what the code does at the edges: the bin that ends there
C5_UpperBoundInclusive ==
    TreemapRun =>
        \A i \in DOMAIN df[1].rows :
            LET x == df[1].rows[i].c["IDH-M_2010"]
                f == LabelOf(df[1].rows[i].c["Faixa_IDH_2010"])
            IN  IsNumber(x) =>
                    /\ x.v = 60 => f = "<0.6"
                    /\ x.v = 70 => f = "0.6-0.7"
                    /\ x.v = 80 => f = "0.7-0.8"
                    /\ x.v = 90 => f = "0.8-0.9"

\* every IDH-M_2010 from 0.0 to 1.0 has one of the five labels, 0.0 the
\* first and 1.0 the last; a value outside, or a missing one, has none; equal
\* values have equal labels
C6_Classified ==
    TreemapRun =>
        /\ "Faixa_IDH_2010" \in df[1].cols
        /\ \A i \in DOMAIN df[1].rows :
              LET x == df[1].rows[i].c["IDH-M_2010"]
                  f == df[1].rows[i].c["Faixa_IDH_2010"]
              IN  /\ IsNumber(x) /\ 0 <= x.v /\ x.v <= 100 =>
                        /\ f.k = "label"
                        /\ f.v \in 1..5
                        /\ x.v = 0 => LabelOf(f) = "<0.6"
                        /\ x.v = 100 => LabelOf(f) = ">=0.9"
                  /\ ~IsNumber(x) \/ x.v < 0 \/ x.v > 100 => isna(f)
        /\ \A i, j \in DOMAIN df[1].rows :
              df[1].rows[i].c["IDH-M_2010"] = df[1].rows[j].c["IDH-M_2010"]
                  => df[1].rows[i].c["Faixa_IDH_2010"]
                         = df[1].rows[j].c["Faixa_IDH_2010"]

\* C6: the classifier is total on [0.0, 1.0] and deterministic: C6_Classified
\* holds after every run of the treemap, and a further run of the treemap in
\* the same process labels every record as the run before did.
C6_TotalAndDeterministic ==
    /\ []C6_Classified
    /\ [][TreemapRun /\ TreemapRun' => df' = df]_vars

C6_Witness ==
    /\ TreemapRun
    /\ steps = <<>>
    /\ \E i \in DOMAIN df[1].rows :
          /\ df[1].rows[i].c["IDH-M_2010"] = Num(100)
          /\ LabelOf(df[1].rows[i].c["Faixa_IDH_2010"]) = ">=0.9"

builders ==
    << "plot_top10_pop2022", "plot_top10_dens2022", "plot_hist_pib2019",
       "plot_hist_pib2021", "plot_scatter_pib21_dens22",
       "plot_scatter_crescimentos", "plot_boxplot_idhm2010",
       "plot_treemap_pop2022_faixaidhm" >>

\* C7: a run with the i-th of the 8 identifiers of vis_options invokes the
\* i-th builder, once, and no other, with the Dataset load_data returned;
\* the 8 identifiers are distinct and so are the 8 builders.
C7_DispatchTotal ==
    /\ Len(vis_options) = 8
    /\ Cardinality(Views) = 8
    /\ Cardinality(Range(builders)) = 8
    /\ pc = "done" =>
          /\ \E i \in 1..8 : choice = vis_options[i] /\ calls = <<builders[i]>>
          /\ arg = <<Loaded>>
          /\ chart # <<>>

C7_Witness ==
    /\ pc = "done"
    /\ choice = vis_options[4]
    /\ calls = <<"plot_hist_pib2021">>
    /\ Len(arg[1].rows) = 3

C9_BuildersPure ==
    pc = "done" /\ calls # <<>> => df = arg

\* C9 amended: seven builders leave the Dataset as it was;
\* plot_treemap_pop2022_faixaidhm adds the column Faixa_IDH_2010 to the
\* Dataset it is handed and changes nothing else (same rows, same order,
\* same values in every other column).  Every run hands its builder the
\* Dataset as load_data returned it, without that column.
C9_OnlyTreemapAddsColumn ==
    pc = "done" /\ calls # <<>> =>
        /\ arg = <<Loaded>>
        /\ "Faixa_IDH_2010" \notin arg[1].cols
        /\ IF calls = <<"plot_treemap_pop2022_faixaidhm">>
           THEN /\ df[1].cols = arg[1].cols \cup {"Faixa_IDH_2010"}
                /\ Len(df[1].rows) = Len(arg[1].rows)
                /\ \A i \in DOMAIN arg[1].rows :
                      /\ df[1].rows[i].idx = arg[1].rows[i].idx
                      /\ \A col \in arg[1].cols :
                            df[1].rows[i].c[col] = arg[1].rows[i].c[col]
           ELSE df = arg

C9_Witness ==
    /\ pc = "done"
    /\ steps = <<>>
    /\ calls = <<"plot_treemap_pop2022_faixaidhm">>
    /\ Len(arg[1].rows) = 2
    /\ df # arg

\* the Dataset load_data's body makes of the spreadsheet f
Prepared(f) == load_data(f).df

\* C10 as claimed: a run that follows a change of the spreadsheet serves the
\* Dataset of the new content, never a stale one.
C10_NeverStale ==
    pc = "done" /\ ~changed => arg = Prepared(file)

\* C10 amended: the cache entry is keyed by the function alone.  A run
\* executes load_data's body exactly when no Dataset is cached yet; a body
\* that raises caches nothing and runs again at the next run; once a
\* Dataset is cached it stays as it is for the life of the process, every
\* later run serves it without executing the body, and a change of the
\* spreadsheet does not invalidate it.
C10_MemoForProcessLife ==
    [][ /\ cache # <<>> => cache' = cache
        /\ file' = file /\ cache # <<>> =>
              /\ steps' = <<>>
              /\ pc' = "done"
              /\ arg' = cache
        /\ file' = file /\ cache = <<>> =>
              /\ steps' # <<>>
              /\ cache' = Prepared(file)
              /\ pc' = "done" => arg' = cache' /\ cache' # <<>>
              /\ pc' = "halted" => cache' = <<>>
      ]_vars

C10_Witness ==
    /\ pc = "done"
    /\ ~changed
    /\ steps = <<>>
    /\ arg = cache
    /\ Prepared(file) # cache
    /\ Len(file.rows) = 1

====
